---- MODULE Spec2Model ----
(***************************************************************************)
(* stock_report.py: reference-price tracking, multi-period lookbacks and    *)
(* the fetch -> compute -> persist -> notify pipeline.                      *)
(*                                                                         *)
(* Prices are whole dollars (naturals).  A float result is a record:        *)
(*   [kind |-> "num", n |-> numerator, d |-> denominator]  (d > 0)           *)
(*   [kind |-> "inf"]  and  [kind |-> "nan"]   (numpy float64 division by   *)
(*   zero yields inf/nan with a warning, it does not raise).                *)
(* Formatted text is a sequence of one-character strings.                   *)
(***************************************************************************)
EXTENDS Integers, Sequences, FiniteSets, TLC

(***************************************************************************)
(* Bounds                                                                  *)
(***************************************************************************)
\* Longest price history the fetcher is given in SpecFetch (the code asks
\* for 80 sessions; 62 already passes the longest lookback, 60).
MaxSessions == 62

(***************************************************************************)
(* Configuration (src/stock_report.py 19-36)                                *)
(***************************************************************************)
\* The watchlist, cut to the first two tickers of the first category and the
\* first ticker of the second; iteration order is the dict's insertion order.
Categories == <<"Semiconductor", "AI">>

TOP_STOCKS ==
    [c \in {"Semiconductor", "AI"} |->
        IF c = "Semiconductor" THEN <<"NVDA", "TSM">> ELSE <<"MSFT">>]

Tickers == UNION {{TOP_STOCKS[c][i] : i \in 1..Len(TOP_STOCKS[c])} : c \in DOMAIN TOP_STOCKS}

TIME_PERIODS ==
    [p \in {"1d", "1w", "15d", "30d", "2m"} |->
        CASE p = "1d"  -> 1
          [] p = "1w"  -> 5
          [] p = "15d" -> 15
          [] p = "30d" -> 30
          [] p = "2m"  -> 60]

(***************************************************************************)
(* Floats and their formatting                                             *)
(***************************************************************************)
None == [kind |-> "None"]
NaN == [kind |-> "nan"]
Inf == [kind |-> "inf"]
Num(n, d) == [kind |-> "num", n |-> n, d |-> d]

\* Variant: the ratio, the subtraction forgotten.
PctChangeRatio(a, b) ==
    IF b = 0 THEN (IF a = 0 THEN NaN ELSE Inf) ELSE Num(a * 100, b)

\* ((a - b) / b) * 100 on numpy float64 operands, a >= 0 and b >= 0.
PctChange(a, b) ==
    IF b = 0
    THEN (IF a - b = 0 THEN NaN ELSE Inf)
    ELSE Num((a - b) * 100, b)

Abs(x) == IF x < 0 THEN -x ELSE x

DigitChar(k) == <<"0", "1", "2", "3", "4", "5", "6", "7", "8", "9">>[k + 1]

RECURSIVE Digits(_)
Digits(k) == IF k < 10 THEN <<DigitChar(k)>> ELSE Digits(k \div 10) \o <<DigitChar(k % 10)>>

\* q / d rounded to the nearest integer, ties to even (what the correctly
\* rounded '.2f' conversion does for a value that is exactly representable;
\* the bounded prices produce no other ties).
RoundHalfEven(q, d) ==
    LET f == q \div d
        r == q % d
    IN  IF 2 * r < d THEN f
        ELSE IF 2 * r > d THEN f + 1
        ELSE IF f % 2 = 0 THEN f ELSE f + 1

\* format(x, '.2f') without the sign: digits, point, two decimals.
Fixed2(x) ==
    LET h == RoundHalfEven(Abs(x.n) * 100, x.d)
    IN  Digits(h \div 100) \o <<".">> \o <<DigitChar((h % 100) \div 10), DigitChar(h % 10)>>

\* f"{x:+.2f}%"
FormatPct(x) ==
    CASE x.kind = "nan" -> <<"+", "n", "a", "n", "%">>
      [] x.kind = "inf" -> <<"+", "i", "n", "f", "%">>
      [] OTHER -> <<(IF x.n < 0 THEN "-" ELSE "+")>> \o Fixed2(x) \o <<"%">>

\* f"${p:.2f}"
FormatPrice(p) == <<"$">> \o Fixed2(Num(p, 1))

NA == <<"N", "/", "A">>

(***************************************************************************)
(* Price Fetcher (get_stock_data)                                          *)
(***************************************************************************)
\* What stock.history(period='80d') gives back: an exception, or the closes
\* of the sessions it found, oldest first (<<>> is the empty frame).
Response(err, closes) == [error |-> err, Close |-> closes]

\* Variant: the guard written with >= (one session short).
HasHistoryOffByOne(n, days) == n >= days

\* len(data) > days
HasHistory(n, days) == n > days

\* data['Close'][-days-1] exists: position n - days of 1..n.
InFrame(n, days) == n - days >= 1

get_stock_data(ticker, resp) ==
    LET n == Len(resp.Close)
    IN  IF resp.error THEN None
        ELSE IF n = 0 THEN None
        ELSE IF \E p \in DOMAIN TIME_PERIODS :
                    HasHistory(n, TIME_PERIODS[p]) /\ ~InFrame(n, TIME_PERIODS[p])
             THEN None   \* IndexError, caught by the except clause
        ELSE [kind |-> "data",
              symbol |-> ticker,
              price |-> resp.Close[n],
              changes |-> [p \in DOMAIN TIME_PERIODS |->
                             IF HasHistory(n, TIME_PERIODS[p])
                             THEN PctChange(resp.Close[n], resp.Close[n - TIME_PERIODS[p]])
                             ELSE None]]

(***************************************************************************)
(* Reference Store (load_reference_prices / save_reference_prices)         *)
(***************************************************************************)
EmptyMap == [k \in {} |-> 0]

\* json.dump of a flat mapping, and json.load of that text.  A float is
\* written by repr and read back to the same float.
JsonDump(prices) == {<<k, prices[k]>> : k \in DOMAIN prices}
JsonLoad(entries) ==
    [k \in {e[1] : e \in entries} |-> (CHOOSE e \in entries : e[1] = k)[2]]

NoFile == [exists |-> FALSE, valid |-> FALSE, entries |-> {}]
\* open(REFERENCE_FILE, 'w') has truncated the file; the dump is not in it.
Truncated == [exists |-> TRUE, valid |-> FALSE, entries |-> {}]
JsonFile(prices) == [exists |-> TRUE, valid |-> TRUE, entries |-> JsonDump(prices)]

\* raised: json.load threw (nothing in the program catches it).
load_reference_prices(f) ==
    IF f.exists
    THEN (IF f.valid
          THEN [raised |-> FALSE, value |-> JsonLoad(f.entries)]
          ELSE [raised |-> TRUE, value |-> EmptyMap])
    ELSE [raised |-> FALSE, value |-> EmptyMap]

(***************************************************************************)
(* Report Builder (generate_stock_report)                                  *)
(***************************************************************************)
\* f"{ticker}_reference"
RefKey(ticker) == ticker \o "_reference"

\* f'{period_name} Change'
PeriodColumn(p) == p \o " Change"

\* Variant: the reference follows the current price on every run.
SeedReferenceOverwrite(prices, key, current_price) == (key :> current_price) @@ prices

\* Variant: a new reference replaces the mapping instead of extending it.
SeedReferenceReplace(prices, key, current_price) ==
    IF key \notin DOMAIN prices THEN (key :> current_price) ELSE prices

\* Lines 107-109: the mapping after "set reference price if not exists".
SeedReference(prices, key, current_price) ==
    IF key \notin DOMAIN prices THEN prices @@ (key :> current_price) ELSE prices

\* Variant: the flag is set before the fetch result is looked at.
MarkNewEarly(flag, skipped, prices, key) ==
    IF key \notin DOMAIN prices THEN TRUE ELSE flag

\* Lines 107-109: the dirty flag after one ticker (skipped: no observation).
MarkNew(flag, skipped, prices, key) ==
    IF skipped THEN flag
    ELSE IF key \notin DOMAIN prices THEN TRUE ELSE flag

\* Variant: reference and current price swapped.
RefChangeSwapped(current_price, ref_price) == PctChange(ref_price, current_price)

\* Line 112.
RefChange(current_price, ref_price) == PctChange(current_price, ref_price)

\* Lines 115-127.
BuildRow(stock_data, ref_price) ==
    ("Symbol" :> stock_data.symbol)
    @@ ("Current Price" :> FormatPrice(stock_data.price))
    @@ ("Change vs Reference" :> FormatPct(RefChange(stock_data.price, ref_price)))
    @@ [col \in {PeriodColumn(p) : p \in DOMAIN TIME_PERIODS} |->
          LET p == CHOOSE q \in DOMAIN TIME_PERIODS : PeriodColumn(q) = col
              change == stock_data.changes[p]
          IN  IF change # None THEN FormatPct(change) ELSE NA]

\* Variant: `break` in place of `continue`.
AfterSkipBreak(i, n) == n + 1

\* Lines 100-101: `continue` moves on to the next ticker of the category.
AfterSkip(i, n) == i + 1

\* Variant: the store is saved on every run.
ShouldSaveAlways(flag) == TRUE

\* Line 135.
ShouldSave(flag) == flag

(***************************************************************************)
(* Notifier (send_stock_report)                                            *)
(***************************************************************************)
Chars(word) ==
    CASE word = "positive" -> <<"p", "o", "s", "i", "t", "i", "v", "e">>
      [] word = "negative" -> <<"n", "e", "g", "a", "t", "i", "v", "e">>

\* sub in x
Has(x, sub) ==
    \E i \in 1..(Len(x) - Len(sub) + 1) : SubSeq(x, i, i + Len(sub) - 1) = sub

\* f'<span class="{cls}">{x}</span>'
Span(cls, x) ==
    <<"<", "s", "p", "a", "n", " ", "c", "l", "a", "s", "s", "=", "\"">>
    \o Chars(cls) \o <<"\"", ">">> \o x \o <<"<", "/", "s", "p", "a", "n", ">">>

\* Lines 179-182: the colour coding applied to a cell of a 'Change' column.
ColorCode(x) ==
    IF Has(x, <<"+">>) /\ ~Has(x, NA) THEN Span("positive", x)
    ELSE IF Has(x, <<"-">>) THEN Span("negative", x)
    ELSE x

\* 'Change' in col
IsChangeColumn(col) ==
    col = "Change vs Reference" \/ col \in {PeriodColumn(p) : p \in DOMAIN TIME_PERIODS}

\* Lines 174-183: the frames after the in-place colour coding.
Colored(rep) ==
    [c \in DOMAIN rep |->
        [i \in 1..Len(rep[c]) |->
            [col \in DOMAIN rep[c][i] |->
                IF IsChangeColumn(col) THEN ColorCode(rep[c][i][col]) ELSE rep[c][i][col]]]]

\* Variant: the delivery error is not caught.
AfterDeliveryUncaught(ok) == IF ok THEN "completed" ELSE "crashed"

\* Lines 201-207 and 219: where the process is after the delivery attempt.
AfterDelivery(ok) == "completed"

(***************************************************************************)
(* Inputs                                                                  *)
(***************************************************************************)
\* What the fetch can answer in the pipeline: an error, an empty frame, or a
\* short history whose last close is the current price.  Closes are finite and
\* not negative; a close of zero is what Yahoo reports for a missing price.
ShortResponses ==
    {Response(TRUE, <<>>), Response(FALSE, <<>>),
     Response(FALSE, <<0>>), Response(FALSE, <<100>>),
     Response(FALSE, <<100, 105>>), Response(FALSE, <<105, 95>>)}

\* Histories of every length up to MaxSessions: rising from 1, rising from 0
\* (the oldest close is zero), and falling; closes differ by position.
LongResponses ==
    {Response(FALSE, [i \in 1..n |-> i]) : n \in 1..MaxSessions}
    \cup {Response(FALSE, [i \in 1..n |-> i - 1]) : n \in 1..MaxSessions}
    \cup {Response(FALSE, [i \in 1..n |-> MaxSessions + 8 - i]) : n \in 1..MaxSessions}

(***************************************************************************)
(* State                                                                   *)
(***************************************************************************)
VARIABLES
    pc,                \* where the process is
    file,              \* stock_reference.json
    reference_prices,  \* generate_stock_report's mapping
    loaded,            \* the mapping as load_reference_prices returned it this run
    new_references,    \* the dirty flag
    report,            \* category -> rows of its frame
    category_data,     \* rows of the category being processed
    ci,                \* index of the category being processed
    ti,                \* index of the ticker being processed
    data,              \* ticker -> what the fetch answered this run
    reads,             \* calls of load_reference_prices this run
    writes,            \* calls of save_reference_prices this run
    sent,              \* outcome of the delivery attempt this run
    first_price        \* ticker -> current price of its first successful fetch
                       \* among the runs of generate_stock_report that returned

vars == <<pc, file, reference_prices, loaded, new_references, report, category_data,
          ci, ti, data, reads, writes, sent, first_price>>

Init ==
    /\ pc = "idle"
    /\ file = NoFile
    /\ reference_prices = EmptyMap
    /\ loaded = EmptyMap
    /\ new_references = FALSE
    /\ report = EmptyMap
    /\ category_data = <<>>
    /\ ci = 1
    /\ ti = 1
    /\ data = EmptyMap
    /\ reads = 0
    /\ writes = 0
    /\ sent = "none"
    /\ first_price = EmptyMap

\* The process is gone: nothing of its memory is left.
Forgotten ==
    /\ reference_prices' = EmptyMap
    /\ loaded' = EmptyMap
    /\ new_references' = FALSE
    /\ report' = EmptyMap
    /\ category_data' = <<>>
    /\ ci' = 1
    /\ ti' = 1
    /\ data' = EmptyMap
    /\ sent' = "none"

\* Lines 213-215 and 88-92: the invocation starts and the store is loaded.
StartRun ==
    /\ pc \in {"idle", "completed", "crashed"}
    /\ ~load_reference_prices(file).raised
    /\ pc' = "loop"
    /\ reference_prices' = load_reference_prices(file).value
    /\ loaded' = load_reference_prices(file).value
    /\ new_references' = FALSE
    /\ report' = EmptyMap
    /\ category_data' = <<>>
    /\ ci' = 1
    /\ ti' = 1
    /\ data' = EmptyMap
    /\ reads' = 1
    /\ writes' = 0
    /\ sent' = "none"
    /\ UNCHANGED <<file, first_price>>

\* Lines 213-215 and 88: json.load raises and the process ends with a traceback.
LoadFail ==
    /\ pc \in {"idle", "completed", "crashed"}
    /\ load_reference_prices(file).raised
    /\ pc' = "crashed"
    /\ Forgotten
    /\ reads' = 1
    /\ writes' = 0
    /\ UNCHANGED <<file, first_price>>

\* Lines 98-132: one iteration of the ticker loop, and the frame of the
\* category after its last ticker.
Iterate(resp) ==
    LET c == Categories[ci]
        n == Len(TOP_STOCKS[c])
        ticker == TOP_STOCKS[c][ti]
        stock_data == get_stock_data(ticker, resp)
        skipped == stock_data = None
        ref_key == RefKey(ticker)
        prices == IF skipped THEN reference_prices
                  ELSE SeedReference(reference_prices, ref_key, stock_data.price)
        rows == IF skipped THEN category_data
                ELSE Append(category_data, BuildRow(stock_data, prices[ref_key]))
        next == IF skipped THEN AfterSkip(ti, n) ELSE ti + 1
    IN  /\ data' = data @@ (ticker :> resp)
        /\ reference_prices' = prices
        /\ new_references' = MarkNew(new_references, skipped, reference_prices, ref_key)
        /\ IF next > n
           THEN /\ report' = report @@ (c :> rows)
                /\ category_data' = <<>>
                /\ ci' = ci + 1
                /\ ti' = 1
           ELSE /\ category_data' = rows
                /\ ti' = next
                /\ UNCHANGED <<report, ci>>
        /\ UNCHANGED <<pc, file, loaded, reads, writes, sent, first_price>>

ProcessTicker ==
    /\ pc = "loop"
    /\ ci <= Len(Categories)
    /\ \E resp \in ShortResponses : Iterate(resp)

\* The first successful fetch of each ticker, once the run has returned.
Committed ==
    first_price @@
    [t \in {u \in DOMAIN data : get_stock_data(u, data[u]) # None} |->
        get_stock_data(t, data[t]).price]

\* Lines 135-138 with the flag clear: return report.
ReturnReport ==
    /\ pc = "loop"
    /\ ci > Len(Categories)
    /\ ~ShouldSave(new_references)
    /\ pc' = "generated"
    /\ first_price' = Committed
    /\ UNCHANGED <<file, reference_prices, loaded, new_references, report, category_data,
                   ci, ti, data, reads, writes, sent>>

\* Lines 135-136 and 83: save_reference_prices opens the file for writing.
SaveOpen ==
    /\ pc = "loop"
    /\ ci > Len(Categories)
    /\ ShouldSave(new_references)
    /\ pc' = "saving"
    /\ file' = Truncated
    /\ writes' = writes + 1
    /\ UNCHANGED <<reference_prices, loaded, new_references, report, category_data,
                   ci, ti, data, reads, sent, first_price>>

\* Lines 84 and 138: the dump is written, the file closed, the report returned.
SaveDump ==
    /\ pc = "saving"
    /\ pc' = "generated"
    /\ file' = JsonFile(reference_prices)
    /\ first_price' = Committed
    /\ UNCHANGED <<reference_prices, loaded, new_references, report, category_data,
                   ci, ti, data, reads, writes, sent>>

\* Lines 140-199: the document is rendered, colouring the frames in place.
Render ==
    /\ pc = "generated"
    /\ pc' = "rendered"
    /\ report' = Colored(report)
    /\ UNCHANGED <<file, reference_prices, loaded, new_references, category_data,
                   ci, ti, data, reads, writes, sent, first_price>>

\* Lines 201-207 and 219: the delivery attempt, then "Process completed!".
Deliver ==
    /\ pc = "rendered"
    /\ \E ok \in BOOLEAN :
          /\ sent' = (IF ok THEN "ok" ELSE "failed")
          /\ pc' = AfterDelivery(ok)
    /\ UNCHANGED <<file, reference_prices, loaded, new_references, report, category_data,
                   ci, ti, data, reads, writes, first_price>>

\* The process is killed (or interrupted) while a run is under way.
Abort ==
    /\ pc \in {"loop", "saving", "generated", "rendered"}
    /\ pc' = "crashed"
    /\ Forgotten
    /\ UNCHANGED <<file, reads, writes, first_price>>

Next ==
    \/ StartRun
    \/ LoadFail
    \/ ProcessTicker
    \/ ReturnReport
    \/ SaveOpen
    \/ SaveDump
    \/ Render
    \/ Deliver
    \/ Abort

Spec == Init /\ [][Next]_vars

\* The fetcher and the row of its result, on every history length: the first
\* ticker of a first run, answered with any of the long histories.
LookbackTicker ==
    /\ pc = "loop"
    /\ ci = 1
    /\ ti = 1
    /\ \E resp \in LongResponses : Iterate(resp)

NextFetch ==
    \/ StartRun
    \/ LookbackTicker

SpecFetch == Init /\ [][NextFetch]_vars

(***************************************************************************)
(* Vocabulary of the properties                                            *)
(***************************************************************************)
\* The watchlist in processing order.
RECURSIVE Flatten(_)
Flatten(i) ==
    IF i > Len(Categories) THEN <<>> ELSE TOP_STOCKS[Categories[i]] \o Flatten(i + 1)
Order == Flatten(1)

CategoryOf(t) ==
    CHOOSE c \in DOMAIN TOP_STOCKS : \E i \in 1..Len(TOP_STOCKS[c]) : TOP_STOCKS[c][i] = t

\* The answer carried no observation: an error, or an empty frame.
NoObservation(resp) == resp.error \/ resp.Close = <<>>
Current(resp) == resp.Close[Len(resp.Close)]

Observed == {t \in DOMAIN data : ~NoObservation(data[t])}

\* Rows built so far in this run, wherever they are held.
Rows ==
    {category_data[i] : i \in 1..Len(category_data)}
    \cup UNION {{report[c][i] : i \in 1..Len(report[c])} : c \in DOMAIN report}
RowsOf(t) == {r \in Rows : r["Symbol"] = t}

\* generate_stock_report has returned (and nothing has coloured the frames yet).
Returned == pc \in {"generated", "rendered", "completed"}
Uncoloured == pc \in {"loop", "saving", "generated"}

\* The mapping the file holds.
Persisted == IF file.exists /\ file.valid THEN JsonLoad(file.entries) ELSE EmptyMap

\* Tickers given a reference in this run.
Seeded == {t \in Observed : RefKey(t) \notin DOMAIN loaded}

\* The reference a ticker's delta is taken against in this run.
ReferenceOf(t) ==
    IF RefKey(t) \in DOMAIN loaded THEN loaded[RefKey(t)] ELSE Current(data[t])

\* Reading a signed percentage with two decimals back.
IsDigit(ch) == \E k \in 0..9 : DigitChar(k) = ch
DigitVal(ch) == CHOOSE k \in 0..9 : DigitChar(k) = ch
RECURSIVE NatOf(_)
NatOf(ds) ==
    IF Len(ds) = 0 THEN 0 ELSE NatOf(SubSeq(ds, 1, Len(ds) - 1)) * 10 + DigitVal(ds[Len(ds)])
IsSignedPct(s) ==
    /\ Len(s) >= 6
    /\ s[1] \in {"+", "-"}
    /\ s[Len(s)] = "%"
    /\ s[Len(s) - 3] = "."
    /\ \A i \in (2..(Len(s) - 4)) \cup {Len(s) - 2, Len(s) - 1} : IsDigit(s[i])
Hundredths(s) ==
    NatOf(SubSeq(s, 2, Len(s) - 4)) * 100 + DigitVal(s[Len(s) - 2]) * 10 + DigitVal(s[Len(s) - 1])

\* s is (cur - ref) / ref * 100 to the nearest hundredth, explicitly signed.
IsDeltaOf(s, cur, ref) ==
    /\ IsSignedPct(s)
    /\ (s[1] = "-") <=> (cur < ref)
    /\ 2 * Abs(Hundredths(s) * ref - Abs(cur - ref) * 10000) <= ref

(***************************************************************************)
(* C1: after every returned run, each ticker's persisted reference is the   *)
(* current price of its first successful fetch, whatever later runs saw;    *)
(* the file holds it whenever it is not caught mid-save.                    *)
(***************************************************************************)
C1_BaselineKept ==
    (file # Truncated) =>
        \A t \in DOMAIN first_price :
            /\ RefKey(t) \in DOMAIN Persisted
            /\ Persisted[RefKey(t)] = first_price[t]
            /\ Cardinality({e \in file.entries : e[1] = RefKey(t)}) = 1

\* A later run has returned having seen another price for a ticker.
C1_Witness ==
    /\ pc = "generated"
    /\ \E t \in Observed :
          /\ RefKey(t) \in DOMAIN loaded
          /\ t \in DOMAIN first_price
          /\ Current(data[t]) # first_price[t]
          /\ Persisted[RefKey(t)] = first_price[t]

(***************************************************************************)
(* C2: a ticker whose fetch gave no observation has no row in this run, its *)
(* reference entry is as loaded in memory and in the file, and processing   *)
(* it leaves the dirty flag as it was.                                      *)
(***************************************************************************)
C2_SkipState ==
    \A t \in DOMAIN data :
        NoObservation(data[t]) =>
            /\ RowsOf(t) = {}
            /\ RefKey(t) \in DOMAIN reference_prices <=> RefKey(t) \in DOMAIN loaded
            /\ RefKey(t) \in DOMAIN loaded => reference_prices[RefKey(t)] = loaded[RefKey(t)]
            /\ (file # Truncated) =>
                  /\ RefKey(t) \in DOMAIN Persisted <=> RefKey(t) \in DOMAIN loaded
                  /\ RefKey(t) \in DOMAIN loaded => Persisted[RefKey(t)] = loaded[RefKey(t)]

C2_SkipStep ==
    \A t \in Tickers :
        (pc = "loop" /\ t \notin DOMAIN data /\ t \in DOMAIN data' /\ NoObservation(data'[t])) =>
            /\ new_references' = new_references
            /\ reference_prices' = reference_prices
            /\ file' = file

C2_FailedFetchLeavesNoTrace == [][C2_SkipStep /\ C2_SkipState']_vars

\* A run that had to seed one ticker returned, another ticker with a stored
\* reference having failed in it.
C2_Witness ==
    /\ pc = "generated"
    /\ writes = 1
    /\ \E t \in DOMAIN data : NoObservation(data[t]) /\ RefKey(t) \in DOMAIN loaded
    /\ \E t \in DOMAIN data : NoObservation(data[t]) /\ RefKey(t) \notin DOMAIN loaded

(***************************************************************************)
(* C3: a failed fetch does not end the batch: the loop goes on to the next  *)
(* ticker, every ticker of every category is processed, and the returned    *)
(* report has, per category and in order, a row for each ticker fetched.    *)
(***************************************************************************)
RECURSIVE Symbols(_)
Symbols(rows) ==
    IF Len(rows) = 0 THEN <<>> ELSE <<rows[1]["Symbol"]>> \o Symbols(Tail(rows))

RECURSIVE Keep(_, _)
Keep(ts, S) ==
    IF Len(ts) = 0 THEN <<>>
    ELSE (IF ts[1] \in S THEN <<ts[1]>> ELSE <<>>) \o Keep(Tail(ts), S)

C3_Progress ==
    (pc = "loop") =>
        \E k \in 0..Len(Order) :
            /\ DOMAIN data = {Order[i] : i \in 1..k}
            /\ (k < Len(Order)) =>
                  (ci <= Len(Categories) /\ ti <= Len(TOP_STOCKS[Categories[ci]])
                   /\ TOP_STOCKS[Categories[ci]][ti] = Order[k + 1])
            /\ (k = Len(Order)) => ci > Len(Categories)

C3_Complete ==
    Returned =>
        /\ DOMAIN data = Tickers
        /\ DOMAIN report = DOMAIN TOP_STOCKS
        /\ \A c \in DOMAIN report : Symbols(report[c]) = Keep(TOP_STOCKS[c], Observed)

C3_FailStep ==
    \A t \in Tickers :
        (pc = "loop" /\ t \notin DOMAIN data /\ t \in DOMAIN data' /\ NoObservation(data'[t])) =>
            pc' = "loop"

C3_BatchSurvivesFailures == [][C3_FailStep /\ C3_Progress' /\ C3_Complete']_vars

\* The first ticker failed and a later one of the same category has its row.
C3_Witness ==
    /\ pc = "generated"
    /\ data["NVDA"].error
    /\ data["MSFT"].Close = <<>>
    /\ Symbols(report["Semiconductor"]) = <<"TSM">>
    /\ report["AI"] = <<>>

(***************************************************************************)
(* C4: for each lookback window and a history of n >= 1 sessions: n <= days *)
(* gives "N/A" and no computed change; n > days gives the change against    *)
(* the close at position n - days, which lies in the history.               *)
(***************************************************************************)
C4_LookbackWindows ==
    Uncoloured =>
        \A t \in Observed :
            LET closes == data[t].Close
                n == Len(closes)
            IN  /\ Cardinality(RowsOf(t)) = 1
                /\ \A r \in RowsOf(t) : \A p \in DOMAIN TIME_PERIODS :
                      LET days == TIME_PERIODS[p]
                      IN  IF n <= days
                          THEN /\ r[PeriodColumn(p)] = NA
                               /\ get_stock_data(t, data[t]).changes[p] = None
                          ELSE /\ n - days \in 1..n
                               /\ r[PeriodColumn(p)] =
                                     FormatPct(PctChange(closes[n], closes[n - days]))
                               /\ closes[n - days] # 0 =>
                                     IsDeltaOf(r[PeriodColumn(p)], closes[n], closes[n - days])

\* Sixty sessions: the 30-session window is computed, the 60-session one is not.
C4_Witness ==
    \E t \in Observed : \E r \in RowsOf(t) :
        /\ Len(data[t].Close) = 60
        /\ r["2m Change"] = NA
        /\ r["30d Change"] # NA
        /\ r["1d Change"] # NA

(***************************************************************************)
(* C5: the store is read once, before any ticker; it is written at most     *)
(* once, after every ticker of every category; and it is written exactly    *)
(* when this run seeded a reference, the file being untouched otherwise.    *)
(***************************************************************************)
C5_ReadOnceWriteOnce ==
    (pc \in {"loop", "saving", "generated", "rendered", "completed"}) =>
        /\ reads = 1
        /\ writes <= 1
        /\ (writes = 1) => (DOMAIN data = Tickers /\ pc # "loop")
        /\ (writes = 0) => file = (IF loaded = EmptyMap /\ ~file.exists THEN NoFile
                                   ELSE JsonFile(loaded))
        /\ new_references <=> (Seeded # {})
        /\ Returned => ((writes = 1) <=> (Seeded # {}))

\* A run returned with rows but nothing new to store.
C5_Witness ==
    /\ pc = "generated"
    /\ writes = 0
    /\ Observed # {}
    /\ file = JsonFile(loaded)

(***************************************************************************)
(* C6: a store that is missing or unreadable is loaded as the empty         *)
(* mapping and the run goes on.                                            *)
(***************************************************************************)
C6_UnreadableStoreIsEmpty ==
    [][(pc \in {"idle", "completed", "crashed"} /\ ~(file.exists /\ file.valid))
          => (pc' = "loop" /\ reference_prices' = EmptyMap /\ loaded' = EmptyMap)]_vars

(***************************************************************************)
(* C7: with a non-zero reference, 'Change vs Reference' is                  *)
(* (current - reference) / reference * 100 as a signed percentage with two  *)
(* decimals, the reference being the loaded value if there was one and the  *)
(* current price otherwise; 100 -> 105 is "+5.00%", 100 -> 95 is "-5.00%".  *)
(***************************************************************************)
C7_ChangeVsReference ==
    Uncoloured =>
        \A t \in Observed : \A r \in RowsOf(t) :
            LET cur == Current(data[t])
                ref == ReferenceOf(t)
                s == r["Change vs Reference"]
            IN  (ref # 0) =>
                    /\ IsDeltaOf(s, cur, ref)
                    /\ (ref = 100 /\ cur = 105) => s = <<"+", "5", ".", "0", "0", "%">>
                    /\ (ref = 100 /\ cur = 95) => s = <<"-", "5", ".", "0", "0", "%">>

\* One row of each of the two quoted cases, against stored references.
C7_Witness ==
    /\ pc = "generated"
    /\ \E t \in Observed :
          RefKey(t) \in DOMAIN loaded /\ loaded[RefKey(t)] = 100 /\ Current(data[t]) = 105
    /\ \E t \in Observed :
          RefKey(t) \in DOMAIN loaded /\ loaded[RefKey(t)] = 100 /\ Current(data[t]) = 95

(***************************************************************************)
(* C8: a ticker whose current price equals its reference shows 0.00%.       *)
(***************************************************************************)
Zero == <<"+", "0", ".", "0", "0", "%">>

\* As claimed: for every such ticker.
C8_EqualPriceIsZero ==
    Uncoloured =>
        \A t \in Observed : \A r \in RowsOf(t) :
            (Current(data[t]) = ReferenceOf(t)) => r["Change vs Reference"] = Zero

\* As amended: for every such ticker whose reference is not zero.
C8_EqualNonZeroPriceIsZero ==
    Uncoloured =>
        \A t \in Observed : \A r \in RowsOf(t) :
            (Current(data[t]) = ReferenceOf(t) /\ ReferenceOf(t) # 0) =>
                r["Change vs Reference"] = Zero

\* Both cases in one run: a ticker seeded now, another back at its stored price.
C8_Witness ==
    /\ pc = "generated"
    /\ \E t \in Seeded : Current(data[t]) # 0 /\ RowsOf(t) # {}
    /\ \E t \in Observed \ Seeded :
          Current(data[t]) = loaded[RefKey(t)] /\ Current(data[t]) # 0 /\ RowsOf(t) # {}

(***************************************************************************)
(* C9: fetch, compute, persist, notify, in that order: the notifier starts  *)
(* after every ticker was processed and after any write, nothing writes the *)
(* store once it has started, and a failed delivery changes neither the     *)
(* store nor the report and ends at "Process completed!".                   *)
(***************************************************************************)
C9_Order ==
    (pc \in {"rendered", "completed"}) =>
        /\ DOMAIN data = Tickers
        /\ DOMAIN report = DOMAIN TOP_STOCKS
        /\ (writes = 1) => file = JsonFile(reference_prices)
        /\ (writes = 0) => Seeded = {}

C9_NotifyStep ==
    /\ (pc \in {"generated", "rendered"}) => (file' = file /\ writes' = writes)
    /\ (pc = "rendered" /\ sent' = "failed") =>
          (pc' = "completed" /\ report' = report /\ reference_prices' = reference_prices)

C9_NotifyAfterPersist == [][C9_NotifyStep /\ C9_Order']_vars

\* The store was written, the delivery failed, the process completed.
C9_Witness ==
    /\ pc = "completed"
    /\ sent = "failed"
    /\ writes = 1
    /\ Rows # {}

(***************************************************************************)
(* C10: a returned run leaves a store that extends the loaded one and has   *)
(* an entry for every ticker with a row; a run that ends abnormally before  *)
(* the save leaves the store as loaded, the references it seeded lost.      *)
(***************************************************************************)
C10_Returned ==
    Returned =>
        /\ file # Truncated
        /\ \A k \in DOMAIN loaded : k \in DOMAIN Persisted /\ Persisted[k] = loaded[k]
        /\ \A r \in Rows : RefKey(r["Symbol"]) \in DOMAIN Persisted

C10_AbortStep ==
    (pc = "loop" /\ pc' = "crashed") =>
        /\ file' = file
        /\ Persisted = loaded
        /\ \A t \in Seeded : RefKey(t) \in DOMAIN reference_prices
                             /\ RefKey(t) \notin DOMAIN Persisted'

C10_StoreOnlyGrows == [][C10_AbortStep /\ C10_Returned']_vars

\* A run that found a store returned having added to it.
C10_Witness ==
    /\ pc = "generated"
    /\ loaded # EmptyMap
    /\ Seeded # {}
    /\ DOMAIN loaded # DOMAIN Persisted

====
